---------------------------- MODULE Spec2Model ----------------------------
(***************************************************************************)
(* Model of the agent layer of Arogya Wellness Assistant                   *)
(* (services/agents.py): four agent coroutines that read the shared        *)
(* conversation memory, call a remote chat model with a key taken from the *)
(* API key pool, retry once on failure with a fresh key, and write one     *)
(* turn back into the shared memory.                                       *)
(*                                                                         *)
(* Texts are TLA+ strings; Len, \o and SubSeq act on them character by     *)
(* character, so a Python slice s[:n] is Slice(s, n) below.  The two       *)
(* non-ASCII hyphens (U+2011) of the fitness texts are written "-"; each   *)
(* is one character in Python as well, so every length is kept.            *)
(***************************************************************************)
EXTENDS Integers, Sequences, FiniteSets, TLC

(***************************************************************************)
(* Bounds of the model.                                                    *)
(***************************************************************************)
\* agent invocations in one behaviour of Spec (they may all be in flight at once)
MaxTasks == 2
\* credentials the key pool is built with
NumKeys == 2
\* calls made to the key pool in one behaviour of PoolSpec
MaxPoolOps == 5
\* save_history calls in one behaviour of HistorySpec or HistoryRaceSpec
MaxSaves == 3
\* threads (or server processes) that call save_history at the same time
NumSavers == 2
\* create_user calls in one behaviour of UserSpec
MaxCreates == 3

(***************************************************************************)
(* Program constants.                                                      *)
(***************************************************************************)
\* report[:120]
ReportSnippetLen == 120
\* prompt[:160]
PromptSnippetLen == 160

Keys == 1..NumKeys
Variants == {"symptom", "lifestyle", "diet", "fitness"}
\* the order in which the pipeline driver calls the agents
Pipeline == <<"symptom", "lifestyle", "diet", "fitness">>

(***************************************************************************)
(* Input texts.  Ten200 is 200 characters long, Ten130 is 130: longer than *)
(* both truncation constants, resp. longer than the report snippet only.   *)
(***************************************************************************)
Ten10 == "0123456789"
Ten50 == Ten10 \o Ten10 \o Ten10 \o Ten10 \o Ten10
Ten130 == Ten50 \o Ten50 \o Ten10 \o Ten10 \o Ten10
Ten200 == Ten50 \o Ten50 \o Ten50 \o Ten50

SymptomTexts == {"fever and cough", "S" \o Ten200}
ReportTexts == {"", "R" \o Ten130}
\* upstream notes handed to a Diet or Fitness agent that is called on its own
NotesTexts == {"sleep 8 hours"}
KbTexts == {"", "K: drink water"}
\* texts the remote model may answer with
ResultTexts == {"rest", "A" \o Ten200}
\* errors a remote call may raise
Errors == {"quota", "other"}

(***************************************************************************)
(* Text helpers.                                                           *)
(***************************************************************************)
Min(a, b) == IF a <= b THEN a ELSE b

Max(a, b) == IF a >= b THEN a ELSE b

\* the invocations a behaviour may hold: MaxTasks free ones, or one pipeline run
Tasks == 1..Max(MaxTasks, Len(Pipeline))

\* Python s[:n]
Slice(s, n) == SubSeq(s, 1, Min(n, Len(s)))

\* Python `sub in s`
Contains(s, sub) ==
    \E i \in 0..(Len(s) - Len(sub)) : SubSeq(s, i + 1, i + Len(sub)) = sub

\* Python s.startswith(p)
StartsWith(s, p) == Len(p) <= Len(s) /\ SubSeq(s, 1, Len(p)) = p

IsPrefix(s, t) == Len(s) <= Len(t) /\ SubSeq(t, 1, Len(s)) = s

(***************************************************************************)
(* The fixed system instruction of each agent.                             *)
(***************************************************************************)
SystemText(variant) ==
    CASE variant = "symptom" ->
            "You are a safe medical triage assistant. "
         \o "You only assess severity and suggest if the user should see a doctor. "
         \o "Do not provide diagnoses or prescriptions.\n\n"
         \o "You may consider structured information from a lab/medical report "
         \o "if it is provided, but still MUST NOT diagnose or prescribe."
      [] variant = "lifestyle" ->
            "You are a lifestyle coach collaborating with other agents. "
         \o "Suggest simple lifestyle habits, sleep hygiene, stress management, "
         \o "and daily routine tips. Keep suggestions safe and generic.\n\n"
         \o "If lab values or diagnoses are mentioned in the report, you may "
         \o "reference them in very general language (for example 'elevated "
         \o "blood sugar'), but do NOT add new diagnoses or change treatment."
      [] variant = "diet" ->
            "You are a dietician collaborating with other agents to give general diet guidance. "
         \o "Never claim to cure diseases or override a doctor's advice. "
         \o "Do not name prescription medicines or doses."
      [] variant = "fitness" ->
            "You are a cautious fitness coach. "
         \o "You design simple, low-intensity plans that are generally safe. "
         \o "Always recommend consulting a doctor before heavy exercise."

(***************************************************************************)
(* The task message of each agent, built from its arguments (f-strings).   *)
(***************************************************************************)
SymptomPrompt(symptoms, report) ==
       "Analyze these symptoms and their possible severity.\n\n"
    \o "Symptoms:\n" \o symptoms \o "\n\n"
    \o "Medical report text (may be empty):\n" \o report

LifestylePrompt(symptoms, report) ==
       "Given the conversation so far, the user's symptoms, and any available "
    \o "medical report text, suggest lifestyle changes and constraints.\n\n"
    \o "Symptoms:\n" \o symptoms \o "\n\n"
    \o "Medical report text (may be empty):\n" \o report

\* DietPrompt that cuts the lifestyle notes like a recorded snippet
DietPrompt_Snippet(symptoms, report, lifestyle_notes, kb) ==
       "User symptoms:\n" \o symptoms \o "\n\n"
    \o "Relevant medical report text (may be empty):\n" \o report \o "\n\n"
    \o "Lifestyle information from lifestyle_agent:\n"
    \o Slice(lifestyle_notes, PromptSnippetLen) \o "\n\n"
    \o "Evidence / knowledge base snippets:\n" \o kb \o "\n\n"
    \o "Suggest a safe, balanced diet plan. Mention foods to prefer and foods to avoid. "
    \o "Highlight that this is not a replacement for a dietician or doctor."

DietPrompt(symptoms, report, lifestyle_notes, kb) ==
       "User symptoms:\n" \o symptoms \o "\n\n"
    \o "Relevant medical report text (may be empty):\n" \o report \o "\n\n"
    \o "Lifestyle information from lifestyle_agent:\n" \o lifestyle_notes \o "\n\n"
    \o "Evidence / knowledge base snippets:\n" \o kb \o "\n\n"
    \o "Suggest a safe, balanced diet plan. Mention foods to prefer and foods to avoid. "
    \o "Highlight that this is not a replacement for a dietician or doctor."

FitnessPrompt(symptoms, diet_notes) ==
       "User symptoms:\n" \o symptoms \o "\n\n"
    \o "Diet constraints from diet_agent:\n" \o diet_notes \o "\n\n"
    \o "Recommend only low-risk, gentle physical activities, and clearly tell the "
    \o "user to stop if they feel pain or discomfort. Always remind them to talk "
    \o "to their doctor before starting or intensifying exercise."


Prompt(variant, symptoms, report, notes, kb) ==
    CASE variant = "symptom" -> SymptomPrompt(symptoms, report)
      [] variant = "lifestyle" -> LifestylePrompt(symptoms, report)
      [] variant = "diet" -> DietPrompt(symptoms, report, notes, kb)
      [] variant = "fitness" -> FitnessPrompt(symptoms, notes)

(***************************************************************************)
(* The input side of the turn an agent records: a label and a cut of its   *)
(* request.  symptom_agent records the symptoms whole and the first        *)
(* ReportSnippetLen characters of the report; the other three record the   *)
(* first PromptSnippetLen characters of their prompt.                      *)
(***************************************************************************)
Label(variant) == "[" \o variant \o "_agent] "

\* RecordedInput that records the request whole
RecordedInput_Untruncated(variant, symptoms, report, prompt) ==
    IF variant = "symptom"
    THEN Label(variant) \o "symptoms=" \o symptoms
         \o " report_snippet=" \o report
    ELSE Label(variant) \o prompt

RecordedInput(variant, symptoms, report, prompt) ==
    IF variant = "symptom"
    THEN Label(variant) \o "symptoms=" \o symptoms
         \o " report_snippet=" \o Slice(report, ReportSnippetLen)
    ELSE Label(variant) \o Slice(prompt, PromptSnippetLen)

(***************************************************************************)
(* Shared memory (services/memory.py, a conversation buffer): the ordered  *)
(* turns; its history is a human and an ai message per turn.               *)
(***************************************************************************)
Turn(input, output) == [input |-> input, output |-> output]

save_context(history, input, output) == Append(history, Turn(input, output))

RECURSIVE load_memory_variables(_)
load_memory_variables(history) ==
    IF history = <<>> THEN <<>>
    ELSE <<[role |-> "human", content |-> Head(history).input],
           [role |-> "ai", content |-> Head(history).output]>>
         \o load_memory_variables(Tail(history))

\* Compose that leaves the history out
Compose_NoHistory(variant, history, prompt) ==
       <<[role |-> "system", content |-> SystemText(variant)]>>
    \o <<[role |-> "human", content |-> prompt]>>

\* [SystemMessage] + history + [HumanMessage]
Compose(variant, history, prompt) ==
       <<[role |-> "system", content |-> SystemText(variant)]>>
    \o history
    \o <<[role |-> "human", content |-> prompt]>>

(***************************************************************************)
(* Key pool (services/api_key_pool.py): round robin over the credentials   *)
(* not marked exhausted, starting at the cursor; when all are exhausted    *)
(* the credential at the cursor is handed out anyway.                      *)
(***************************************************************************)
NextAfter(k) == (k % NumKeys) + 1

Dist(from, k) == (k - from + NumKeys) % NumKeys

get_next_key(cur, exh) ==
    LET avail == Keys \ exh
        pick == IF avail = {} THEN cur
                ELSE CHOOSE k \in avail :
                        \A j \in avail : Dist(cur, k) <= Dist(cur, j)
    IN  [key |-> pick, cursor |-> NextAfter(pick)]

mark_key_quota_exceeded(exh, key) == exh \cup {key}

\* _make_llm_with_key that asks the pool twice and builds with the second key
_make_llm_with_key_Twice(cur, exh) ==
    get_next_key(get_next_key(cur, exh).cursor, exh)

\* _make_llm_with_key that gets no key (None) from a pool with none left
_make_llm_with_key_NoneWhenExhausted(cur, exh) ==
    IF exh = Keys THEN [key |-> 0, cursor |-> cur] ELSE get_next_key(cur, exh)

\* the key the model client is built with, and the pool's cursor after it
_make_llm_with_key(cur, exh) == get_next_key(cur, exh)

(***************************************************************************)
(* State.                                                                  *)
(*   symptoms, report  the user's request, which the driver hands to every *)
(*                 agent it calls                                          *)
(*   kb            what retrieve_context(symptoms) returns for it          *)
(*   chat_history  the shared memory's turns, oldest first                 *)
(*   writer        the invocation that wrote each turn (same indices)      *)
(*   cursor        the key pool's rotation cursor                          *)
(*   exhausted     the credentials marked exhausted                        *)
(*   nStarted      agent invocations so far; invocation t is the t-th one  *)
(*   task          per invocation: its arguments, its message list, the    *)
(*                 key it holds, its position (pc) and what it returned,   *)
(*                 and a record of what it did: the requests it sent, how  *)
(*                 each ended ("ok", "raise"), the keys it marked, the     *)
(*                 invocations that had returned when it started           *)
(***************************************************************************)
VARIABLES symptoms, report, kb, chat_history, writer, cursor, exhausted,
          nStarted, task

\* whether each request is recorded with the number of turns the shared
\* memory held when it was sent (a choice made at the start of a behaviour)
VARIABLE logTurns

(***************************************************************************)
(* State of the parts that are exercised on their own.                     *)
(*   keyLog        the calls made to the key pool, in order                *)
(*   historyFile   storage/history.json                                    *)
(*   savers        the save_history calls under way (what each loaded)     *)
(*   savedLog      the save_history calls that have returned, in order     *)
(*   got           what the last get_history call returned                 *)
(*   usersFile     storage/users.json                                      *)
(*   created       the last create_user call and what it returned          *)
(***************************************************************************)
VARIABLES keyLog, historyFile, savers, savedLog, got, usersFile, created

agentVars ==
    <<symptoms, report, kb, chat_history, writer, nStarted, task, logTurns>>

poolVars == <<cursor, exhausted>>

historyVars == <<historyFile, savers, savedLog, got>>

userVars == <<usersFile, created>>

storeVars == <<keyLog, historyVars, userVars>>

vars == <<agentVars, poolVars, storeVars>>

\* a file that does not exist; its content is then of no account
NoFile == [exists |-> FALSE, text |-> {}]

HistoryStart(file) ==
    /\ historyFile = file
    /\ savers = <<>>
    /\ savedLog = <<>>
    /\ got = <<>>

UsersStart ==
    /\ usersFile = [exists |-> FALSE, text |-> <<>>]
    /\ created = <<>>

NoTask ==
    [pc |-> "idle", variant |-> "", notes |-> "", prompt |-> "",
     messages |-> <<>>, key |-> 0, result |-> "", sent |-> <<>>,
     outcomes |-> <<>>, marked |-> <<>>, pred |-> {}, replies |-> <<>>]

\* process start (empty memory, fresh key pool) with the user's request given
AgentsReady(s, r, k) ==
    /\ symptoms = s
    /\ report = r
    /\ kb = k
    /\ chat_history = <<>>
    /\ writer = <<>>
    /\ cursor = 1
    /\ exhausted = {}
    /\ nStarted = 0
    /\ task = [t \in Tasks |-> NoTask]

AgentsStart(s, r, k) == AgentsReady(s, r, k) /\ logTurns = FALSE

Start(s, r, k) ==
    /\ AgentsStart(s, r, k)
    /\ keyLog = <<>>
    /\ HistoryStart(NoFile)
    /\ UsersStart

\* Spec starts from a short request or from a long one
Init ==
    \/ Start("fever and cough", "", "")
    \/ Start("S" \o Ten200, "R" \o Ten130, "K: drink water")

\* PipelineSpec starts from every combination of the input texts
PipelineInit ==
    \E s \in SymptomTexts, r \in ReportTexts, k \in KbTexts : Start(s, r, k)

Returned == {t \in Tasks : task[t].pc = "done"}

\* one remote call: the key it is made with and the messages it carries
\* (and, for the record, the keys marked exhausted when the key was taken
\* and, in a behaviour that logs it, the number of turns the shared memory
\* held when the call was made)
Request(key, messages, exh) ==
    [key |-> key, messages |-> messages, poolExhausted |-> exh,
     turnsThen |-> IF logTurns THEN Len(chat_history) ELSE 0]

(***************************************************************************)
(* An agent up to its first await: read the memory, compose the messages,  *)
(* take a key and send the first request.                                  *)
(***************************************************************************)
Invoke(t, variant, prompt, notes) ==
    /\ t = nStarted + 1
    /\ t \in Tasks
    /\ LET history == load_memory_variables(chat_history)
           messages == Compose(variant, history, prompt)
           llm == _make_llm_with_key(cursor, exhausted)
       IN  /\ task' = [task EXCEPT ![t] =
                  [pc |-> "await1", variant |-> variant, notes |-> notes,
                   prompt |-> prompt, messages |-> messages, key |-> llm.key,
                   result |-> "",
                   sent |-> <<Request(llm.key, messages, exhausted)>>,
                   outcomes |-> <<>>, marked |-> <<>>, pred |-> Returned,
                   replies |-> <<>>]]
           /\ cursor' = llm.cursor
    /\ nStarted' = t
    /\ UNCHANGED <<storeVars, logTurns, symptoms, report, kb,
                   chat_history, writer, exhausted>>

symptom_agent(t) ==
    Invoke(t, "symptom", SymptomPrompt(symptoms, report), "")

lifestyle_agent(t) ==
    Invoke(t, "lifestyle", LifestylePrompt(symptoms, report), "")

diet_agent(t, lifestyle_notes) ==
    Invoke(t, "diet", DietPrompt(symptoms, report, lifestyle_notes, kb),
           lifestyle_notes)

fitness_agent(t, diet_notes) ==
    Invoke(t, "fitness", FitnessPrompt(symptoms, diet_notes), diet_notes)

\* ReturnResult that forgets memory.save_context
ReturnResult_NoSave(t, text) ==
    /\ task' = [task EXCEPT ![t].pc = "done", ![t].result = text,
                            ![t].outcomes = Append(@, "ok")]
    /\ UNCHANGED <<storeVars, logTurns, symptoms, report, kb,
                   chat_history, writer, cursor,
                   exhausted, nStarted>>

\* ReturnResult that replaces the memory's content by its own turn
ReturnResult_Overwrite(t, text) ==
    /\ chat_history' = <<Turn(RecordedInput(task[t].variant, symptoms, report,
                                            task[t].prompt), text)>>
    /\ writer' = <<t>>
    /\ task' = [task EXCEPT ![t].pc = "done", ![t].result = text,
                            ![t].outcomes = Append(@, "ok")]
    /\ UNCHANGED <<storeVars, logTurns, symptoms, report, kb,
                   cursor, exhausted, nStarted>>

\* ReturnResult that appends to the history it read when it was invoked and
\* stores that list
ReturnResult_Stale(t, text) ==
    /\ LET n == (Len(task[t].messages) - 2) \div 2
       IN  /\ chat_history' = save_context(SubSeq(chat_history, 1, n),
                                  RecordedInput(task[t].variant, symptoms,
                                                report, task[t].prompt),
                                  text)
           /\ writer' = Append(SubSeq(writer, 1, n), t)
    /\ task' = [task EXCEPT ![t].pc = "done", ![t].result = text,
                            ![t].outcomes = Append(@, "ok")]
    /\ UNCHANGED <<storeVars, logTurns, symptoms, report, kb,
                   cursor, exhausted, nStarted>>

\* ReturnResult that puts its turn in front of the recorded ones
ReturnResult_Prepend(t, text) ==
    /\ chat_history' = <<Turn(RecordedInput(task[t].variant, symptoms, report,
                                            task[t].prompt), text)>>
                       \o chat_history
    /\ writer' = <<t>> \o writer
    /\ task' = [task EXCEPT ![t].pc = "done", ![t].result = text,
                            ![t].outcomes = Append(@, "ok")]
    /\ UNCHANGED <<storeVars, logTurns, symptoms, report, kb,
                   cursor, exhausted, nStarted>>

(***************************************************************************)
(* memory.save_context(...); return result.content                         *)
(***************************************************************************)
ReturnResult(t, text) ==
    /\ chat_history' = save_context(chat_history,
                           RecordedInput(task[t].variant, symptoms, report,
                                         task[t].prompt),
                           text)
    /\ writer' = Append(writer, t)
    /\ task' = [task EXCEPT ![t].pc = "done", ![t].result = text,
                            ![t].outcomes = Append(@, "ok"),
                            ![t].replies = Append(@, text)]
    /\ UNCHANGED <<storeVars, logTurns, symptoms, report, kb,
                   cursor, exhausted, nStarted>>

\* FirstCallReturns that reports the key it used to the pool all the same
FirstCallReturns_Mark(t, text) ==
    /\ task[t].pc = "await1"
    /\ chat_history' = save_context(chat_history,
                           RecordedInput(task[t].variant, symptoms, report,
                                         task[t].prompt),
                           text)
    /\ writer' = Append(writer, t)
    /\ exhausted' = mark_key_quota_exceeded(exhausted, task[t].key)
    /\ task' = [task EXCEPT ![t].pc = "done", ![t].result = text,
                            ![t].outcomes = Append(@, "ok"),
                            ![t].replies = Append(@, text)]
    /\ UNCHANGED <<storeVars, logTurns, symptoms, report, kb,
                   cursor, nStarted>>

\* the first call returns `text`
FirstCallReturns(t, text) ==
    /\ task[t].pc = "await1"
    /\ ReturnResult(t, text)

\* FirstCallRaises that retries without marking the failed key
FirstCallRaises_NoMark(t, err) ==
    /\ task[t].pc = "await1"
    /\ LET llm == _make_llm_with_key(cursor, exhausted)
       IN  /\ cursor' = llm.cursor
           /\ task' = [task EXCEPT
                  ![t].pc = "await2",
                  ![t].key = llm.key,
                  ![t].outcomes = Append(@, "raise"),
                  ![t].sent = Append(@, Request(llm.key, task[t].messages,
                                                exhausted))]
    /\ UNCHANGED <<storeVars, logTurns, symptoms, report, kb,
                   chat_history, writer, exhausted,
                   nStarted>>

\* FirstCallRaises whose mark replaces the exhausted set by its own key
FirstCallRaises_Overwrite(t, err) ==
    /\ task[t].pc = "await1"
    /\ LET exh == {task[t].key}
           llm == _make_llm_with_key(cursor, exh)
       IN  /\ exhausted' = exh
           /\ cursor' = llm.cursor
           /\ task' = [task EXCEPT
                  ![t].pc = "await2",
                  ![t].key = llm.key,
                  ![t].marked = Append(@, task[t].key),
                  ![t].outcomes = Append(@, "raise"),
                  ![t].sent = Append(@, Request(llm.key, task[t].messages, exh))]
    /\ UNCHANGED <<storeVars, logTurns, symptoms, report, kb,
                   chat_history, writer, nStarted>>

\* FirstCallRaises that reads the memory again and composes new messages for
\* the retry
FirstCallRaises_Recompose(t, err) ==
    /\ task[t].pc = "await1"
    /\ LET exh == mark_key_quota_exceeded(exhausted, task[t].key)
           llm == _make_llm_with_key(cursor, exh)
           messages == Compose(task[t].variant,
                               load_memory_variables(chat_history),
                               task[t].prompt)
       IN  /\ exhausted' = exh
           /\ cursor' = llm.cursor
           /\ task' = [task EXCEPT
                  ![t].pc = "await2",
                  ![t].key = llm.key,
                  ![t].messages = messages,
                  ![t].marked = Append(@, task[t].key),
                  ![t].outcomes = Append(@, "raise"),
                  ![t].sent = Append(@, Request(llm.key, messages, exh))]
    /\ UNCHANGED <<storeVars, logTurns, symptoms, report, kb,
                   chat_history, writer, nStarted>>

\* FirstCallRaises that takes the fresh key before it marks the failed one
FirstCallRaises_KeyBeforeMark(t, err) ==
    /\ task[t].pc = "await1"
    /\ LET llm == _make_llm_with_key(cursor, exhausted)
           exh == mark_key_quota_exceeded(exhausted, task[t].key)
       IN  /\ exhausted' = exh
           /\ cursor' = llm.cursor
           /\ task' = [task EXCEPT
                  ![t].pc = "await2",
                  ![t].key = llm.key,
                  ![t].marked = Append(@, task[t].key),
                  ![t].outcomes = Append(@, "raise"),
                  ![t].sent = Append(@, Request(llm.key, task[t].messages, exh))]
    /\ UNCHANGED <<storeVars, logTurns, symptoms, report, kb,
                   chat_history, writer, nStarted>>

(***************************************************************************)
(* The first call raises `err`: whatever the error is (`except Exception`   *)
(* does not look at it), mark the key, take a fresh one and send the same  *)
(* messages again.                                                         *)
(***************************************************************************)
FirstCallRaises(t, err) ==
    /\ task[t].pc = "await1"
    /\ LET exh == mark_key_quota_exceeded(exhausted, task[t].key)
           llm == _make_llm_with_key(cursor, exh)
       IN  /\ exhausted' = exh
           /\ cursor' = llm.cursor
           /\ task' = [task EXCEPT
                  ![t].pc = "await2",
                  ![t].key = llm.key,
                  ![t].marked = Append(@, task[t].key),
                  ![t].outcomes = Append(@, "raise"),
                  ![t].sent = Append(@, Request(llm.key, task[t].messages, exh))]
    /\ UNCHANGED <<storeVars, logTurns, symptoms, report, kb,
                   chat_history, writer, nStarted>>

\* the retry returns `text`
RetryReturns(t, text) ==
    /\ task[t].pc = "await2"
    /\ ReturnResult(t, text)

\* RetryRaises that marks the retry's key as well before it gives up
RetryRaises_MarkToo(t, err) ==
    /\ task[t].pc = "await2"
    /\ exhausted' = mark_key_quota_exceeded(exhausted, task[t].key)
    /\ task' = [task EXCEPT ![t].pc = "failed",
                            ![t].marked = Append(@, task[t].key),
                            ![t].outcomes = Append(@, "raise")]
    /\ UNCHANGED <<storeVars, logTurns, symptoms, report, kb,
                   chat_history, writer, cursor,
                   nStarted>>

\* RetryRaises that tries again instead of giving up
RetryRaises_Again(t, err) ==
    /\ task[t].pc = "await2"
    /\ LET exh == mark_key_quota_exceeded(exhausted, task[t].key)
           llm == _make_llm_with_key(cursor, exh)
       IN  /\ exhausted' = exh
           /\ cursor' = llm.cursor
           /\ task' = [task EXCEPT
                  ![t].key = llm.key,
                  ![t].marked = Append(@, task[t].key),
                  ![t].outcomes = Append(@, "raise"),
                  ![t].sent = Append(@, Request(llm.key, task[t].messages, exh))]
    /\ UNCHANGED <<storeVars, logTurns, symptoms, report, kb,
                   chat_history, writer, nStarted>>

\* RetryRaises that swallows the failure and answers with a default text
RetryRaises_Fallback(t, err) ==
    /\ task[t].pc = "await2"
    /\ chat_history' = save_context(chat_history,
                           RecordedInput(task[t].variant, symptoms, report,
                                         task[t].prompt),
                           "The service is unavailable, please try again.")
    /\ writer' = Append(writer, t)
    /\ task' = [task EXCEPT
           ![t].pc = "done",
           ![t].result = "The service is unavailable, please try again.",
           ![t].outcomes = Append(@, "raise")]
    /\ UNCHANGED <<storeVars, logTurns, symptoms, report, kb,
                   cursor, exhausted, nStarted>>

\* the retry raises `err`: the exception leaves the agent
RetryRaises(t, err) ==
    /\ task[t].pc = "await2"
    /\ task' = [task EXCEPT ![t].pc = "failed",
                            ![t].outcomes = Append(@, "raise")]
    /\ UNCHANGED <<storeVars, logTurns, symptoms, report, kb,
                   chat_history, writer, cursor,
                   exhausted, nStarted>>

\* what the remote model does with a request in flight
RemoteStep ==
    \/ \E t \in Tasks, text \in ResultTexts : FirstCallReturns(t, text)
    \/ \E t \in Tasks, err \in Errors : FirstCallRaises(t, err)
    \/ \E t \in Tasks, text \in ResultTexts : RetryReturns(t, text)
    \/ \E t \in Tasks, err \in Errors : RetryRaises(t, err)

(***************************************************************************)
(* Spec: up to MaxTasks invocations of any agents with any notes, started  *)
(* at any time, so that their remote calls overlap in every way.           *)
(***************************************************************************)
Next ==
    \/ \E t \in 1..MaxTasks : symptom_agent(t)
    \/ \E t \in 1..MaxTasks : lifestyle_agent(t)
    \/ \E t \in 1..MaxTasks, n \in NotesTexts : diet_agent(t, n)
    \/ \E t \in 1..MaxTasks, n \in NotesTexts : fitness_agent(t, n)
    \/ RemoteStep

Spec == Init /\ [][Next]_vars

\* the same invocations, each request recorded with the size of the memory
TurnLogInit ==
    /\ AgentsReady("S" \o Ten200, "R" \o Ten130, "K: drink water")
    /\ logTurns = TRUE
    /\ keyLog = <<>>
    /\ HistoryStart(NoFile)
    /\ UsersStart

TurnLogSpec == TurnLogInit /\ [][Next]_vars

(***************************************************************************)
(* PipelineSpec: one run of the pipeline driver, which calls the four      *)
(* agents strictly one after the other and hands each agent's result to    *)
(* the next: Lifestyle's to Diet, Diet's to Fitness.  A failed agent ends  *)
(* the run.                                                                *)
(***************************************************************************)
PipelineStep ==
    \/ nStarted = 0 /\ symptom_agent(1)
    \/ nStarted = 1 /\ task[1].pc = "done" /\ lifestyle_agent(2)
    \/ nStarted = 2 /\ task[2].pc = "done" /\ diet_agent(3, task[2].result)
    \/ nStarted = 3 /\ task[3].pc = "done" /\ fitness_agent(4, task[3].result)

PipelineNext == PipelineStep \/ RemoteStep

PipelineSpec == PipelineInit /\ [][PipelineNext]_vars

(***************************************************************************)
(* The key pool on its own: callers that build a client                    *)
(* (_make_llm_with_key, the pool's next()) and callers that report a key   *)
(* (mark_key_quota_exceeded), in any order.                                *)
(***************************************************************************)
PoolInit ==
    /\ AgentsStart("fever and cough", "", "")
    /\ keyLog = <<>>
    /\ HistoryStart(NoFile)
    /\ UsersStart

TakeKey ==
    /\ Len(keyLog) < MaxPoolOps
    /\ LET llm == _make_llm_with_key(cursor, exhausted)
       IN  /\ cursor' = llm.cursor
           /\ keyLog' = Append(keyLog, [op |-> "next", key |-> llm.key])
    /\ UNCHANGED <<agentVars, exhausted, historyVars, userVars>>

MarkKey(k) ==
    /\ Len(keyLog) < MaxPoolOps
    /\ exhausted' = mark_key_quota_exceeded(exhausted, k)
    /\ keyLog' = Append(keyLog, [op |-> "mark", key |-> k])
    /\ UNCHANGED <<agentVars, cursor, historyVars, userVars>>

PoolNext ==
    \/ TakeKey
    \/ \E k \in Keys : MarkKey(k)

PoolSpec == PoolInit /\ [][PoolNext]_vars

(***************************************************************************)
(* History store (services/history_store.py): one JSON file that holds a   *)
(* dict from user id to the list of that user's entries.  A dict is a      *)
(* function; the text of the file is the set of the members json.dump      *)
(* wrote, each a pair of a key and a list.                                 *)
(***************************************************************************)
\* the callers identify a user by the username of the user store
UserIds == {"alice", "bob"}

Entries == {"e1", "e2"}

Savers == 1..NumSavers

EmptyDict == [k \in {} |-> <<>>]

\* a history file that holds the empty dict, "{}"
EmptyStore == [exists |-> TRUE, text |-> {}]

\* json writes a str key as it is (the model has no other keys)
JsonKey(k) == k

json_dump(data) == {<<JsonKey(k), data[k]>> : k \in DOMAIN data}

\* json.load builds the dict member by member
json_load(text) ==
    [k \in {m[1] : m \in text} |-> (CHOOSE m \in text : m[1] = k)[2]]

load(file) == IF ~file.exists THEN EmptyDict ELSE json_load(file.text)

\* os.makedirs(STORAGE_DIR, exist_ok=True); json.dump(data, f)
save(data) == [exists |-> TRUE, text |-> json_dump(data)]

\* d.get(k, [])
Get(d, k) == IF k \in DOMAIN d THEN d[k] ELSE <<>>

\* data.setdefault(user_id, []).append(entry)
setdefault_append(data, user_id, entry) ==
    [k \in DOMAIN data \cup {user_id} |->
        IF k = user_id THEN Append(Get(data, k), entry) ELSE data[k]]

\* save_history that stores the entry as the user's whole list
save_history_Replace(user_id, entry) ==
    /\ Len(savedLog) < MaxSaves
    /\ historyFile' = save([k \in DOMAIN load(historyFile) \cup {user_id} |->
                              IF k = user_id THEN <<entry>>
                              ELSE load(historyFile)[k]])
    /\ savedLog' = Append(savedLog, [user_id |-> user_id, entry |-> entry,
                                     loadedAt |-> Len(savedLog)])
    /\ UNCHANGED <<agentVars, poolVars, keyLog, savers, got, userVars>>

\* save_history(user_id, entry), run from its first line to its last with
\* no other call in between
save_history(user_id, entry) ==
    /\ Len(savedLog) < MaxSaves
    /\ historyFile' = save(setdefault_append(load(historyFile), user_id, entry))
    /\ savedLog' = Append(savedLog, [user_id |-> user_id, entry |-> entry,
                                     loadedAt |-> Len(savedLog)])
    /\ UNCHANGED <<agentVars, poolVars, keyLog, savers, got, userVars>>

\* get_history(user_id): the list it returns, kept with the number of saves
\* made before it
get_history(user_id) ==
    /\ got' = [user_id |-> user_id, list |-> Get(load(historyFile), user_id),
               at |-> Len(savedLog)]
    /\ UNCHANGED <<agentVars, poolVars, keyLog, historyFile, savers, savedLog,
                   userVars>>

HistoryInit ==
    /\ AgentsStart("fever and cough", "", "")
    /\ keyLog = <<>>
    /\ HistoryStart(NoFile) \/ HistoryStart(EmptyStore)
    /\ UsersStart

HistoryNext ==
    \/ \E u \in UserIds, e \in Entries : save_history(u, e)
    \/ \E u \in UserIds : get_history(u)

HistorySpec == HistoryInit /\ [][HistoryNext]_vars

(***************************************************************************)
(* save_history called by NumSavers threads at once.  Its three lines are  *)
(* not guarded by any lock, so a thread may be preempted between load()    *)
(* and save(data).                                                         *)
(***************************************************************************)
IdleSaver ==
    [pc |-> "idle", user_id |-> "", entry |-> "", data |-> EmptyDict,
     loadedAt |-> 0]

\* save_history calls begun so far
Begun == Len(savedLog) + Cardinality({w \in Savers : savers[w].pc = "loaded"})

HistoryRaceInit ==
    /\ AgentsStart("fever and cough", "", "")
    /\ keyLog = <<>>
    /\ historyFile = NoFile
    /\ savers = [w \in Savers |-> IdleSaver]
    /\ savedLog = <<>>
    /\ got = <<>>
    /\ UsersStart

\* data = load()
SaverLoads(w, user_id, entry) ==
    /\ savers[w].pc = "idle"
    /\ Begun < MaxSaves
    /\ savers' = [savers EXCEPT ![w] =
           [pc |-> "loaded", user_id |-> user_id, entry |-> entry,
            data |-> load(historyFile), loadedAt |-> Len(savedLog)]]
    /\ UNCHANGED <<agentVars, poolVars, keyLog, historyFile, savedLog, got,
                   userVars>>

\* data.setdefault(user_id, []).append(entry); save(data)
SaverSaves(w) ==
    /\ savers[w].pc = "loaded"
    /\ historyFile' = save(setdefault_append(savers[w].data, savers[w].user_id,
                                             savers[w].entry))
    /\ savedLog' = Append(savedLog, [user_id |-> savers[w].user_id,
                                     entry |-> savers[w].entry,
                                     loadedAt |-> savers[w].loadedAt])
    /\ savers' = [savers EXCEPT ![w] = IdleSaver]
    /\ UNCHANGED <<agentVars, poolVars, keyLog, got, userVars>>

HistoryRaceNext ==
    \/ \E w \in Savers, u \in UserIds, e \in Entries : SaverLoads(w, u, e)
    \/ \E w \in Savers : SaverSaves(w)

HistoryRaceSpec == HistoryRaceInit /\ [][HistoryRaceNext]_vars

(***************************************************************************)
(* User store (services/user_auth_store.py): one JSON file that holds the  *)
(* list of the user records.  The text of the file is the list of the      *)
(* objects json.dump wrote, each the set of its members.  The storage      *)
(* directory exists (_save_users does not create it).                      *)
(***************************************************************************)
Usernames == {"alice", "bob"}

Passwords == {"pw1", "pw2"}

FullNames == {"", "Alice A."}

_load_users(file) ==
    IF ~file.exists THEN <<>>
    ELSE [i \in 1..Len(file.text) |-> json_load(file.text[i])]

_save_users(users) ==
    [exists |-> TRUE, text |-> [i \in 1..Len(users) |-> json_dump(users[i])]]

\* any(u.get("username") == username for u in users)
Taken(users, username) ==
    \E i \in 1..Len(users) : users[i].username = username

\* create_user without the check for a stored username
create_user_NoCheck(username, password, full_name) ==
    /\ Len(created) < MaxCreates
    /\ usersFile' = _save_users(Append(_load_users(usersFile),
                          [username |-> username, password |-> password,
                           full_name |-> full_name]))
    /\ created' = Append(created, [username |-> username, ret |-> TRUE])
    /\ UNCHANGED <<agentVars, poolVars, keyLog, historyVars>>

\* create_user(username, password, full_name), with what it returned
create_user(username, password, full_name) ==
    /\ Len(created) < MaxCreates
    /\ LET users == _load_users(usersFile)
       IN  IF Taken(users, username)
           THEN /\ created' = Append(created, [username |-> username,
                                               ret |-> FALSE])
                /\ UNCHANGED usersFile
           ELSE /\ usersFile' = _save_users(Append(users,
                                     [username |-> username,
                                      password |-> password,
                                      full_name |-> full_name]))
                /\ created' = Append(created, [username |-> username,
                                               ret |-> TRUE])
    /\ UNCHANGED <<agentVars, poolVars, keyLog, historyVars>>

UserInit ==
    /\ AgentsStart("fever and cough", "", "")
    /\ keyLog = <<>>
    /\ HistoryStart(NoFile)
    /\ usersFile \in {[exists |-> FALSE, text |-> <<>>],
                      [exists |-> TRUE, text |-> <<>>]}
    /\ created = <<>>

UserNext ==
    \E n \in Usernames, p \in Passwords, f \in FullNames : create_user(n, p, f)

UserSpec == UserInit /\ [][UserNext]_vars

(***************************************************************************)
(* Properties.                                                             *)
(***************************************************************************)
Started == 1..nStarted

\* the turns invocation t wrote
TurnsBy(t) == {i \in 1..Len(writer) : writer[i] = t}

\* the keys invocation t marked exhausted
MarkedBy(t) == {task[t].marked[i] : i \in 1..Len(task[t].marked)}

\* C1 (retry-once bound): an invocation, of any agent, whose first remote
\* call raised and whose second returned has succeeded, has marked exactly
\* one credential exhausted (the first call's) and has appended exactly one
\* turn to the shared memory.
C1_RetryOnceBound ==
    \A t \in Started :
        task[t].outcomes = <<"raise", "ok">> =>
            /\ task[t].pc = "done"
            /\ task[t].result \in ResultTexts
            /\ Len(task[t].marked) = 1
            /\ task[t].marked[1] = task[t].sent[1].key
            /\ Cardinality(TurnsBy(t)) = 1

C1_Witness ==
    \E t, u \in Started :
        /\ task[t].variant = "symptom" /\ task[t].outcomes = <<"raise", "ok">>
        /\ task[u].variant = "diet" /\ task[u].outcomes = <<"raise", "ok">>

\* C2 as claimed (retry exhaustion): an invocation whose two remote calls
\* both raised has failed, has marked two distinct credentials exhausted
\* and has appended no turn.
C2_TwoMarked ==
    \A t \in Started :
        task[t].outcomes = <<"raise", "raise">> =>
            /\ task[t].pc = "failed"
            /\ Cardinality(MarkedBy(t)) = 2
            /\ TurnsBy(t) = {}

\* C2 as amended: an invocation whose two remote calls both raised has
\* failed, has marked exactly one credential exhausted, the first call's
\* (the retry's key is left unmarked), has appended no turn and has
\* returned nothing.
C2_RetryExhaustion ==
    \A t \in Started :
        task[t].outcomes = <<"raise", "raise">> =>
            /\ task[t].pc = "failed"
            /\ task[t].marked = <<task[t].sent[1].key>>
            /\ TurnsBy(t) = {}
            /\ task[t].result = ""

C2_Witness ==
    \E t, u \in Started :
        /\ task[t].variant = "lifestyle" /\ task[u].variant = "fitness"
        /\ task[t].outcomes = <<"raise", "raise">>
        /\ task[u].outcomes = <<"raise", "raise">>
        /\ task[t].sent[2].key # task[t].sent[1].key
        /\ task[u].sent[2].key # task[u].sent[1].key

\* C3 (retry exactly once): an invocation issues at most two remote calls;
\* it has issued the second one exactly when the first one raised, whatever
\* the error, and it issues none after the second.
C3_RetryExactlyOnce ==
    \A t \in Started :
        /\ Len(task[t].sent) \in {1, 2}
        /\ Len(task[t].sent) = 2
              <=> (task[t].outcomes # <<>> /\ task[t].outcomes[1] = "raise")
        /\ Len(task[t].outcomes) <= Len(task[t].sent)
        /\ task[t].pc \in {"await1", "await2"}
              <=> Len(task[t].outcomes) < Len(task[t].sent)

C3_Witness ==
    \E t, u \in Started :
        /\ task[t].pc = "failed" /\ Len(task[t].sent) = 2
        /\ task[u].pc = "done" /\ Len(task[u].sent) = 1

\* C4 (turn count): in every state the shared memory holds as many turns
\* as invocations have returned; each returned invocation wrote exactly one
\* of them, and an invocation that failed or is still waiting wrote none.
C4_TurnCount ==
    /\ Len(chat_history) = Cardinality(Returned)
    /\ Len(writer) = Len(chat_history)
    /\ \A t \in Tasks :
          Cardinality(TurnsBy(t)) = (IF task[t].pc = "done" THEN 1 ELSE 0)

C4_Witness ==
    \E t, u \in Started :
        /\ task[t].pc = "failed"
        /\ task[u].pc = "done"
        /\ Len(chat_history) = 1

\* C5 (append-only): every step leaves the recorded turns as they are and
\* in place; the history before a step is a prefix of the history after it.
C5_AppendOnly == [][IsPrefix(chat_history, chat_history')]_vars

C5_Witness ==
    /\ Len(chat_history) >= 2
    /\ chat_history[1] # chat_history[2]

\* where invocation t's turn stands in the shared memory
Pos(t) == CHOOSE i \in TurnsBy(t) : TRUE

\* C6 as claimed (invocation order): of two returned invocations, the one
\* that was invoked first has its turn first, however their remote calls
\* overlap.
C6_InvocationOrder ==
    \A a, b \in Returned : a < b => Pos(a) < Pos(b)

\* C6 as amended (return order): a returning invocation puts its turn
\* after all recorded ones, so the turns stand in the order in which the
\* invocations returned; the turn of an invocation that had returned
\* when another was invoked precedes that other's turn.
C6_ReturnOrder ==
    /\ [](\A a, b \in Returned : a \in task[b].pred => Pos(a) < Pos(b))
    /\ [][\A t \in Tasks :
            (task[t].pc # "done" /\ task'[t].pc = "done") =>
                /\ writer' = Append(writer, t)
                /\ SubSeq(chat_history', 1, Len(chat_history)) = chat_history
                /\ chat_history'[Len(chat_history')].output = task'[t].result
         ]_vars

C6_Witness ==
    \E a, b \in Returned :
        /\ a \in task[b].pred
        /\ task[a].outcomes = <<"raise", "ok">>
        /\ Pos(a) < Pos(b)

\* `msgs` is: the system instruction of `variant`, a human and an ai message
\* for each of `turns` in order, the task message `prompt`
MessagesHold(msgs, variant, prompt, turns) ==
    /\ Len(msgs) = 2 * Len(turns) + 2
    /\ msgs[1] = [role |-> "system", content |-> SystemText(variant)]
    /\ msgs[Len(msgs)] = [role |-> "human", content |-> prompt]
    /\ \A i \in 1..Len(turns) :
          /\ msgs[2 * i] = [role |-> "human", content |-> turns[i].input]
          /\ msgs[2 * i + 1] = [role |-> "ai", content |-> turns[i].output]

\* the Symptom, Lifestyle and Diet agents have been invoked one after the
\* other and each remote call returned at once; Fitness is not invoked yet
ThreeInSequence ==
    /\ nStarted = 3
    /\ \A t \in 1..3 : task[t].pc = "done" /\ task[t].outcomes = <<"ok">>

\* C7 (no agent loses context): after Symptom, Lifestyle and Diet ran in
\* sequence with a remote model that always answers, the shared memory
\* holds exactly three turns, theirs in that order, and the messages each
\* of them sent hold, between the system instruction and the task message,
\* every turn written before it, in order.
C7_NoLostContext ==
    ThreeInSequence =>
        /\ Len(chat_history) = 3
        /\ writer = <<1, 2, 3>>
        /\ \A i \in 1..3 :
              /\ task[i].variant = Pipeline[i]
              /\ StartsWith(chat_history[i].input, Label(Pipeline[i]))
              /\ chat_history[i].output = task[i].result
              /\ Len(task[i].sent) = 1
              /\ MessagesHold(task[i].sent[1].messages, Pipeline[i],
                              task[i].prompt, SubSeq(chat_history, 1, i - 1))

C7_Witness ==
    /\ ThreeInSequence
    /\ Len(task[3].sent[1].messages) = 6
    /\ Len(symptoms) > PromptSnippetLen

C9_ChainingContract ==
    \A t \in Started :
        task[t].variant \in {"diet", "fitness"} =>
            \A i \in 1..Len(task[t].sent) :
                LET msgs == task[t].sent[i].messages
                    last == msgs[Len(msgs)]
                IN  /\ last.role = "human"
                    /\ Contains(last.content, task[t].notes)

C9_Witness ==
    \E t, u \in Started :
        /\ task[t].variant = "diet" /\ task[u].variant = "fitness"
        /\ Len(task[t].sent) = 2 /\ Len(task[u].sent) = 2
        /\ Len(task[t].notes) > PromptSnippetLen
        /\ Len(task[u].notes) > PromptSnippetLen

\* C10 (exhaustion skip): the key pool never hands out a credential that
\* is marked exhausted while one that is not marked exists; so the key of
\* an invocation's retry differs from the key the invocation has just
\* marked whenever the pool held an unmarked credential at that moment.
C10_ExhaustionSkip ==
    \A t \in Started :
        /\ \A i \in 1..Len(task[t].sent) :
              task[t].sent[i].key \in task[t].sent[i].poolExhausted
                  => task[t].sent[i].poolExhausted = Keys
        /\ (Len(task[t].sent) = 2 /\ task[t].sent[2].poolExhausted # Keys)
              => /\ task[t].marked[1] \in task[t].sent[2].poolExhausted
                 /\ task[t].sent[2].key # task[t].marked[1]

\* the pool skipped the marked key at its cursor for one invocation's retry
\* and had no unmarked key left for the other's
C10_Witness ==
    \E t, u \in Started :
        /\ Len(task[t].sent) = 2 /\ Len(task[u].sent) = 2
        /\ task[t].sent[1].key = 1 /\ task[t].sent[2].key = 2
        /\ task[t].sent[2].poolExhausted = {1}
        /\ task[u].sent[2].poolExhausted = Keys

\* the keys marked exhausted before the i-th call to the pool
MarkedBefore(i) ==
    {keyLog[j].key : j \in {j \in 1..(i - 1) : keyLog[j].op = "mark"}}

\* calls i .. i+n-1 to the pool were all made, and all are next()
NextRun(i, n) ==
    /\ n >= 1
    /\ i + n - 1 <= Len(keyLog)
    /\ \A j \in i..(i + n - 1) : keyLog[j].op = "next"

\* C11 (round-robin fairness): whenever the pool holds N credentials that
\* are not marked exhausted and N next() calls follow one another with no
\* mark in between, the N calls return N different credentials, namely
\* every one of the N available: each exactly once.
C11_RoundRobinFairness ==
    \A i \in 1..Len(keyLog) :
        LET avail == Keys \ MarkedBefore(i)
            n == Cardinality(avail)
        IN  NextRun(i, n) =>
                /\ {keyLog[j].key : j \in i..(i + n - 1)} = avail
                /\ \A j, k \in i..(i + n - 1) :
                      keyLog[j].key = keyLog[k].key => j = k

\* a full round that began in the middle of the rotation, and a round over
\* fewer keys after one was marked
C11_Witness ==
    /\ \E i \in 2..Len(keyLog) :
          /\ MarkedBefore(i) = {}
          /\ NextRun(i, NumKeys)
          /\ keyLog[i].key # 1
    /\ \E i \in 2..Len(keyLog) :
          /\ MarkedBefore(i) # {}
          /\ NextRun(i, NumKeys - 1)

\* the requests of the pipeline's agents in the order they were sent (the
\* agents of the pipeline run one after the other)
AllSent == task[1].sent \o task[2].sent \o task[3].sent \o task[4].sent

\* C12 (degraded mode): a client built while every credential is marked
\* exhausted still gets a credential of the pool, the one after the
\* credential handed out last; an agent invoked in that state has sent its
\* first request, and once that request has failed it has sent its retry,
\* again with a credential of the pool.
C12_DegradedMode ==
    /\ \A i \in 1..Len(AllSent) :
          AllSent[i].poolExhausted = Keys =>
              /\ AllSent[i].key \in Keys
              /\ i > 1
              /\ AllSent[i].key = NextAfter(AllSent[i - 1].key)
    /\ \A t \in Started :
          exhausted = Keys =>
              /\ Len(task[t].sent) >= 1
              /\ task[t].pc = "await1" <=> task[t].outcomes = <<>>
              /\ (task[t].outcomes # <<>> /\ task[t].outcomes[1] = "raise")
                    => /\ Len(task[t].sent) = 2
                       /\ task[t].sent[2].key \in Keys
                       /\ task[t].sent[2].messages = task[t].sent[1].messages

\* an agent was invoked with every credential exhausted; its first call
\* failed and its retry was answered
C12_Witness ==
    \E t \in Started :
        /\ task[t].sent[1].poolExhausted = Keys
        /\ task[t].outcomes = <<"raise", "ok">>
        /\ task[t].pc = "done"

\* invocations a and b overlapped: b was invoked before a had returned
Overlap(a, b) == a < b /\ a \notin task[b].pred

\* C13 (exhaustion is monotonic): no step of any interleaving of agent
\* invocations takes a credential out of the exhausted set, and every
\* credential an invocation has marked is in the set however the other
\* invocations' marks and key requests fell around it.
C13_ExhaustionMonotonic ==
    /\ [](\A t \in Started : MarkedBy(t) \subseteq exhausted)
    /\ [][exhausted \subseteq exhausted']_vars

\* two invocations in flight at once have each marked a different key
C13_Witness ==
    \E a, b \in Started :
        /\ Overlap(a, b)
        /\ task[a].pc = "await2" /\ task[b].pc = "await2"
        /\ MarkedBy(a) # {} /\ MarkedBy(b) # {}
        /\ MarkedBy(a) # MarkedBy(b)
        /\ exhausted = MarkedBy(a) \cup MarkedBy(b)

\* the complete turn invocation t records when it returns
OwnTurn(t) ==
    Turn(RecordedInput(task[t].variant, symptoms, report, task[t].prompt),
         task[t].result)

\* C15 (concurrent appends are safe): when invocations whose remote calls
\* overlapped have both returned, the shared memory holds one complete turn
\* of each, at different places, and as many turns in all as invocations
\* have returned: none lost, doubled or overwritten.
C15_ConcurrentAppendsSafe ==
    \A a, b \in Returned :
        Overlap(a, b) =>
            /\ Cardinality(TurnsBy(a)) = 1 /\ Cardinality(TurnsBy(b)) = 1
            /\ chat_history[Pos(a)] = OwnTurn(a)
            /\ chat_history[Pos(b)] = OwnTurn(b)
            /\ Pos(a) # Pos(b)
            /\ Len(chat_history) = Cardinality(Returned)

\* two invocations read the same memory, overlapped, and both returned, the
\* one invoked last first
C15_Witness ==
    \E a, b \in Returned :
        /\ Overlap(a, b)
        /\ task[a].messages[1] # task[b].messages[1]
        /\ Len(task[a].messages) = Len(task[b].messages)
        /\ Pos(b) < Pos(a)

\* C16 (no synthesized answer): an invocation that has returned returns the
\* one text its remote model produced, in its last call (the retry when the
\* first call raised), and that text is the output side of the one turn it
\* appended; an invocation whose two calls both raised has left by the
\* exception: it returned no text and appended no turn.
C16_NoSynthesizedAnswer ==
    \A t \in Started :
        /\ task[t].pc = "done" =>
              /\ task[t].outcomes \in {<<"ok">>, <<"raise", "ok">>}
              /\ task[t].replies = <<task[t].result>>
              /\ task[t].result \in ResultTexts
              /\ Cardinality(TurnsBy(t)) = 1
              /\ chat_history[Pos(t)].output = task[t].result
        /\ task[t].outcomes = <<"raise", "raise">> =>
              /\ task[t].pc = "failed"
              /\ task[t].result = ""
              /\ task[t].replies = <<>>
              /\ TurnsBy(t) = {}
              /\ \A i \in 1..Len(chat_history) :
                    chat_history[i].output \in ResultTexts

\* one invocation returned its retry's long text, another failed twice
C16_Witness ==
    \E t, u \in Started :
        /\ task[t].outcomes = <<"raise", "ok">>
        /\ Len(task[t].result) > PromptSnippetLen
        /\ task[u].outcomes = <<"raise", "raise">>

\* every other invocation started so far had returned before t was invoked
RanAlone(t) == Started \ {t} \subseteq task[t].pred

\* C17 (the success path leaves the exhaustion state untouched): an
\* invocation whose first remote call was answered has taken one credential
\* from the pool and marked none; the step in which it returns leaves the
\* exhausted set as it is, and when no other invocation ran meanwhile the
\* set is the one the pool had when the invocation took its credential.
C17_SuccessLeavesExhaustion ==
    /\ [](\A t \in Started :
            (task[t].outcomes # <<>> /\ task[t].outcomes[1] = "ok") =>
                /\ Len(task[t].sent) = 1
                /\ task[t].marked = <<>>
                /\ task[t].sent[1].key \in Keys)
    /\ [][\A t \in Tasks :
            (task[t].pc = "await1" /\ task'[t].pc = "done") =>
                /\ exhausted' = exhausted
                /\ RanAlone(t) => exhausted' = task[t].sent[1].poolExhausted]_vars

\* an invocation that ran alone, with a key already exhausted, was answered
\* at its first call
C17_Witness ==
    \E t \in Started :
        /\ RanAlone(t)
        /\ task[t].pc = "done" /\ task[t].outcomes = <<"ok">>
        /\ task[t].sent[1].poolExhausted # {}
        /\ exhausted = task[t].sent[1].poolExhausted

\* C18 (the retry re-sends the first attempt's messages): the second
\* request of an invocation carries the message list of its first request,
\* which holds the turns the shared memory had before the first call and
\* the invocation's prompt, whatever turns other invocations have appended
\* to the memory between the two requests.
C18_RetrySameMessages ==
    \A t \in Started :
        Len(task[t].sent) = 2 =>
            /\ task[t].sent[2].messages = task[t].sent[1].messages
            /\ task[t].sent[2].turnsThen >= task[t].sent[1].turnsThen
            /\ MessagesHold(task[t].sent[2].messages, task[t].variant,
                            task[t].prompt,
                            SubSeq(chat_history, 1, task[t].sent[1].turnsThen))

\* another invocation appended its turn between an invocation's first
\* request and its retry
C18_Witness ==
    \E t \in Started :
        /\ Len(task[t].sent) = 2
        /\ task[t].sent[2].turnsThen > task[t].sent[1].turnsThen

\* the entries of the first n completed save_history calls that were for u,
\* in the order of the calls
RECURSIVE SavedFor(_, _)
SavedFor(u, n) ==
    IF n = 0 THEN <<>>
    ELSE IF savedLog[n].user_id = u
         THEN Append(SavedFor(u, n - 1), savedLog[n].entry)
         ELSE SavedFor(u, n - 1)

\* C14 (append-only per-user lists): starting from a missing or an empty
\* store and with the save_history calls made one after the other, the
\* list stored for a user is at all times the entries saved for that user,
\* in the order saved (empty for a user with none); get_history returns
\* that list; and a save_history for one user leaves the list of every
\* other user as it was.
C14_AppendOnlyPerUser ==
    /\ [](/\ \A u \in UserIds :
                Get(load(historyFile), u) = SavedFor(u, Len(savedLog))
           /\ got # <<>> => got.list = SavedFor(got.user_id, got.at))
    /\ [][\A u \in UserIds :
            (Len(savedLog') = Len(savedLog) + 1
                /\ savedLog'[Len(savedLog')].user_id # u)
            => Get(load(historyFile'), u) = Get(load(historyFile), u)]_vars

\* get_history returned two entries for one user, in the order saved, with
\* an entry of the other user saved between them, and nothing for a user
\* with no entry
C14_Witness ==
    /\ Len(savedLog) = 3
    /\ savedLog[1].user_id = "alice" /\ savedLog[1].entry = "e2"
    /\ savedLog[2].user_id = "bob"
    /\ savedLog[3].user_id = "alice" /\ savedLog[3].entry = "e1"
    /\ got = [user_id |-> "alice", list |-> <<"e2", "e1">>, at |-> 3]
    /\ Get(load(historyFile), "bob") = <<savedLog[2].entry>>

\* how often the list stored for u holds entry e
Stored(u, e) ==
    Cardinality({n \in 1..Len(Get(load(historyFile), u)) :
                    Get(load(historyFile), u)[n] = e})

\* C19 as claimed (no entry lost under interleaving): when the last
\* save_history call to complete had loaded before an earlier one saved
\* (the two overlapped) and no call is under way, the store holds the
\* entries of both.
C19_BothEntriesKept ==
    \A i, j \in 1..Len(savedLog) :
        (/\ i < j
         /\ j = Len(savedLog)
         /\ savedLog[j].loadedAt < i
         /\ \A w \in Savers : savers[w].pc = "idle")
        => \A k \in {i, j} :
              Stored(savedLog[k].user_id, savedLog[k].entry)
                  >= Cardinality({m \in {i, j} :
                        /\ savedLog[m].user_id = savedLog[k].user_id
                        /\ savedLog[m].entry = savedLog[k].entry})

\* C20 (usernames stay unique): after any sequence of create_user calls no
\* two stored records have the same username; a call with a username that
\* is not stored returns True and adds one record, with that username,
\* after the stored ones; a call with a stored username returns False and
\* leaves the file as it is.
C20_UsernamesUnique ==
    /\ [](\A i, j \in 1..Len(_load_users(usersFile)) :
            _load_users(usersFile)[i].username
                = _load_users(usersFile)[j].username => i = j)
    /\ [][Len(created') = Len(created) + 1 =>
            LET call == created'[Len(created')]
                before == _load_users(usersFile)
                after == _load_users(usersFile')
            IN  IF Taken(before, call.username)
                THEN call.ret = FALSE /\ usersFile' = usersFile
                ELSE /\ call.ret = TRUE
                     /\ Len(after) = Len(before) + 1
                     /\ SubSeq(after, 1, Len(before)) = before
                     /\ after[Len(after)].username = call.username]_vars

\* a username was created, refused the second time, and another one created
C20_Witness ==
    /\ Len(created) = 3
    /\ created[1] = [username |-> "bob", ret |-> TRUE]
    /\ created[2] = [username |-> "bob", ret |-> FALSE]
    /\ created[3] = [username |-> "alice", ret |-> TRUE]
    /\ Len(_load_users(usersFile)) = 2
    /\ _load_users(usersFile)[1].password = "pw2"

=============================================================================
